---------------------------- MODULE Spec2Model ----------------------------
(***************************************************************************)
(* Model of src/io.rs: the two IO helpers of the hashing crate.            *)
(*                                                                         *)
(*   copy_wide(reader, hasher)   reads the reader in chunks of at most     *)
(*                               65536 bytes into one buffer and feeds     *)
(*                               each chunk to hasher.update, retrying a   *)
(*                               read that fails with Interrupted.         *)
(*   maybe_mmap_file(file)       probes the file's size by seeking to its  *)
(*                               end, maps the file when the size is in    *)
(*                               range, and rewinds the handle otherwise.  *)
(*                                                                         *)
(* One behaviour of Spec is one call of one of the two functions.  The     *)
(* reader, the file, the platform and the outcome of every system call     *)
(* are the environment: they are drawn from small sets.                    *)
(***************************************************************************)
EXTENDS Integers, Sequences, FiniteSets

VARIABLES
    call,       \* which function this behaviour calls
    \* ---- copy_wide
    reader,     \* the byte source: a script of read outcomes and a position
    buffer,     \* the written prefix of `buffer`; the rest is still 0
    n,          \* the count the last successful read returned
    total,      \* the running total
    hasher,     \* the slices hasher.update has received, in order
    pc,         \* position in copy_wide
    ret,        \* what copy_wide returned
    \* ---- maybe_mmap_file
    platform,   \* the pointer width of the build, in bits
    file,       \* the open file: its size, its contents, its seek cursor
    entry,      \* the cursor at entry
    file_size,  \* the local of the same name
    len_arg,    \* the length handed to the mapping call
    map,        \* the mapped region returned
    mpc,        \* position in maybe_mmap_file
    mret,       \* what maybe_mmap_file returned
    ops         \* the operations performed on the handle, in order

copyVars == <<reader, buffer, n, total, hasher, pc, ret>>
mmapVars == <<platform, file, entry, file_size, len_arg, map, mpc, mret, ops>>
vars == <<call, reader, buffer, n, total, hasher, pc, ret,
          platform, file, entry, file_size, len_arg, map, mpc, mret, ops>>

-----------------------------------------------------------------------------
(* Bounds of the model.                                                    *)

\* longest chunk a read of the model returns
MaxChunkLen == 2
\* longest script of read outcomes before the reader's tail
MaxScriptLen == 3
\* chunks ingested from a reader that never ends
MaxIngest == 4

\* bytes compared at the start of the file
ProbeLen == 2

\* byte values of the model
Bytes == {0, 1}

-----------------------------------------------------------------------------
(* copy_wide                                                               *)

\* let mut buffer = [0; 65536];
BufferLen == 65536

RECURSIVE SeqsUpTo(_, _)
SeqsUpTo(S, k) ==
    IF k = 0 THEN {<<>>}
    ELSE LET shorter == SeqsUpTo(S, k - 1)
         IN  shorter \cup {Append(s, x) : s \in {t \in shorter : Len(t) = k - 1}, x \in S}

\* io::ErrorKind, as far as copy_wide tells kinds apart
ErrorKinds == {"Interrupted", "Other"}

\* What one call of reader.read(&mut buffer) can yield: Ok(n) with the n bytes
\* it wrote at the start of the buffer (n = 0: nothing written), or Err(e).
OkRead(bytes) == [tag |-> "Ok", bytes |-> bytes, err |-> "none"]
ErrRead(kind) == [tag |-> "Err", bytes |-> <<>>, err |-> kind]

\* The chunks of the model: every length up to MaxChunkLen, filled with one byte.
Chunks == {[i \in 1..l |-> b] : l \in 1..MaxChunkLen, b \in Bytes}

Outcomes == {OkRead(c) : c \in Chunks \cup {<<>>}} \cup {ErrRead(k) : k \in ErrorKinds}

\* What a reader yields, read after read, once its script is used up.
Tails == {OkRead(<<>>), ErrRead("Interrupted"), OkRead(<<0>>)}

Readers == [script : SeqsUpTo(Outcomes, MaxScriptLen), pos : {1}, tail : Tails]

\* The outcome of the next read of reader r.
NextOutcome(r) == IF r.pos <= Len(r.script) THEN r.script[r.pos] ELSE r.tail

\* The reader after that read.
Advance(r) == IF r.pos <= Len(r.script) THEN [r EXCEPT !.pos = r.pos + 1] ELSE r

\* buffer[i], 1-based
BufAt(buf, i) == IF i <= Len(buf) THEN buf[i] ELSE 0

\* Faulty variant of Slice: the whole written buffer is handed on, not its first k bytes.
SliceWholeBuffer(buf, k) == [i \in 1..(IF Len(buf) > k THEN Len(buf) ELSE k) |-> BufAt(buf, i)]

\* &buffer[..k]
Slice(buf, k) == [i \in 1..k |-> BufAt(buf, i)]

\* The buffer after a read wrote `bytes` at its start.
Fill(buf, bytes) ==
    bytes \o SubSeq(buf, Len(bytes) + 1, Len(buf))

NoRet == [tag |-> "none", total |-> 0, err |-> "none"]
OkRet(t) == [tag |-> "Ok", total |-> t, err |-> "none"]
ErrRet(kind) == [tag |-> "Err", total |-> 0, err |-> kind]

\* Faulty variant of ReadZero: an empty read is reported as an error.
ReadZeroIsError ==
    /\ call = "copy_wide" /\ pc = "read"
    /\ LET o == NextOutcome(reader) IN
        /\ o.tag = "Ok" /\ Len(o.bytes) = 0
        /\ ret' = ErrRet("Other")
    /\ pc' = "done"
    /\ reader' = Advance(reader)
    /\ UNCHANGED <<buffer, n, total, hasher>>
    /\ UNCHANGED <<call, platform, file, entry, file_size, len_arg, map, mpc, mret, ops>>

\* Faulty variant of ReadZero: an empty read is retried.
ReadZeroRetried ==
    /\ call = "copy_wide" /\ pc = "read"
    /\ LET o == NextOutcome(reader) IN
        /\ o.tag = "Ok" /\ Len(o.bytes) = 0
    /\ pc' = "read"
    /\ reader' = Advance(reader)
    /\ UNCHANGED <<buffer, n, total, hasher, ret>>
    /\ UNCHANGED <<call, platform, file, entry, file_size, len_arg, map, mpc, mret, ops>>

\* Ok(0) => return Ok(total)
ReadZero ==
    /\ call = "copy_wide" /\ pc = "read"
    /\ LET o == NextOutcome(reader) IN
        /\ o.tag = "Ok" /\ Len(o.bytes) = 0
        /\ ret' = OkRet(total)
    /\ pc' = "done"
    /\ reader' = Advance(reader)
    /\ UNCHANGED <<buffer, n, total, hasher>>
    /\ UNCHANGED <<call, platform, file, entry, file_size, len_arg, map, mpc, mret, ops>>

\* The next read of r returns a nonempty chunk, and r is still in its script.
IsChunkNext(r) ==
    /\ r.pos <= Len(r.script)
    /\ NextOutcome(r).tag = "Ok" /\ Len(NextOutcome(r).bytes) > 0

\* Faulty variant of ReadChunk: the next read is issued before the chunk is ingested.
ReadChunkNotIngested ==
    /\ call = "copy_wide" /\ pc = "read"
    /\ LET o == NextOutcome(reader) IN
        /\ o.tag = "Ok" /\ Len(o.bytes) > 0 /\ Len(o.bytes) <= BufferLen
        /\ Len(hasher) < MaxIngest
        /\ buffer' = Fill(buffer, o.bytes)
        /\ n' = Len(o.bytes)
    /\ pc' = (IF IsChunkNext(Advance(reader)) THEN "read" ELSE "ingest")
    /\ reader' = Advance(reader)
    /\ UNCHANGED <<total, hasher, ret>>
    /\ UNCHANGED <<call, platform, file, entry, file_size, len_arg, map, mpc, mret, ops>>

\* Ok(n) => { ... }: the read wrote n > 0 bytes into the buffer
ReadChunk ==
    /\ call = "copy_wide" /\ pc = "read"
    /\ LET o == NextOutcome(reader) IN
        /\ o.tag = "Ok" /\ Len(o.bytes) > 0 /\ Len(o.bytes) <= BufferLen
        /\ Len(hasher) < MaxIngest
        /\ buffer' = Fill(buffer, o.bytes)
        /\ n' = Len(o.bytes)
    /\ pc' = "ingest"
    /\ reader' = Advance(reader)
    /\ UNCHANGED <<total, hasher, ret>>
    /\ UNCHANGED <<call, platform, file, entry, file_size, len_arg, map, mpc, mret, ops>>

\* Faulty variant of Ingest: the total counts the chunks, not their bytes.
IngestCountsChunks ==
    /\ call = "copy_wide" /\ pc = "ingest"
    /\ hasher' = Append(hasher, Slice(buffer, n))
    /\ total' = total + 1
    /\ pc' = "read"
    /\ UNCHANGED <<reader, buffer, n, ret>>
    /\ UNCHANGED <<call, platform, file, entry, file_size, len_arg, map, mpc, mret, ops>>

\* hasher.update(&buffer[..n]); total += n as u64;
\* (total is a u64: no source of the model, nor any a run can exhaust, reaches 2^64
\* bytes, so the sum is the integer sum.)
Ingest ==
    /\ call = "copy_wide" /\ pc = "ingest"
    /\ hasher' = Append(hasher, Slice(buffer, n))
    /\ total' = total + n
    /\ pc' = "read"
    /\ UNCHANGED <<reader, buffer, n, ret>>
    /\ UNCHANGED <<call, platform, file, entry, file_size, len_arg, map, mpc, mret, ops>>

\* Faulty variant of ReadInterrupted: no retry arm, the Interrupted error is returned.
ReadInterruptedReturnsErr ==
    /\ call = "copy_wide" /\ pc = "read"
    /\ LET o == NextOutcome(reader) IN
        /\ o.tag = "Err" /\ o.err = "Interrupted"
        /\ ret' = ErrRet(o.err)
    /\ pc' = "done"
    /\ reader' = Advance(reader)
    /\ UNCHANGED <<buffer, n, total, hasher>>
    /\ UNCHANGED <<call, platform, file, entry, file_size, len_arg, map, mpc, mret, ops>>

\* Faulty variant of ReadInterrupted: retries are capped by the script; the read after the
\* last retry is taken for the end of the source.
ReadInterruptedGivesUp ==
    /\ call = "copy_wide" /\ pc = "read"
    /\ LET o == NextOutcome(reader) IN
        /\ o.tag = "Err" /\ o.err = "Interrupted"
    /\ IF reader.pos > Len(reader.script)
         THEN pc' = "done" /\ ret' = OkRet(total)
         ELSE pc' = "read" /\ ret' = ret
    /\ reader' = Advance(reader)
    /\ UNCHANGED <<buffer, n, total, hasher>>
    /\ UNCHANGED <<call, platform, file, entry, file_size, len_arg, map, mpc, mret, ops>>

\* Faulty variant of ReadInterrupted: the failed attempt is taken for a read of the
\* bytes still in the buffer, which are ingested and counted again.
ReadInterruptedReingests ==
    /\ call = "copy_wide" /\ pc = "read"
    /\ LET o == NextOutcome(reader) IN
        /\ o.tag = "Err" /\ o.err = "Interrupted"
    /\ hasher' = (IF n > 0 THEN Append(hasher, Slice(buffer, n)) ELSE hasher)
    /\ total' = total + n
    /\ pc' = "read"
    /\ reader' = Advance(reader)
    /\ UNCHANGED <<buffer, n, ret>>
    /\ UNCHANGED <<call, platform, file, entry, file_size, len_arg, map, mpc, mret, ops>>

\* Err(e) if e.kind() == std::io::ErrorKind::Interrupted => continue
ReadInterrupted ==
    /\ call = "copy_wide" /\ pc = "read"
    /\ LET o == NextOutcome(reader) IN
        /\ o.tag = "Err" /\ o.err = "Interrupted"
    /\ pc' = "read"
    /\ reader' = Advance(reader)
    /\ UNCHANGED <<buffer, n, total, hasher, ret>>
    /\ UNCHANGED <<call, platform, file, entry, file_size, len_arg, map, mpc, mret, ops>>

\* Faulty variant of ReadError: every error is retried, not only Interrupted.
ReadErrorRetried ==
    /\ call = "copy_wide" /\ pc = "read"
    /\ LET o == NextOutcome(reader) IN
        /\ o.tag = "Err" /\ o.err # "Interrupted"
    /\ pc' = "read"
    /\ reader' = Advance(reader)
    /\ UNCHANGED <<buffer, n, total, hasher, ret>>
    /\ UNCHANGED <<call, platform, file, entry, file_size, len_arg, map, mpc, mret, ops>>

\* Err(e) => return Err(e)
ReadError ==
    /\ call = "copy_wide" /\ pc = "read"
    /\ LET o == NextOutcome(reader) IN
        /\ o.tag = "Err" /\ o.err # "Interrupted"
        /\ ret' = ErrRet(o.err)
    /\ pc' = "done"
    /\ reader' = Advance(reader)
    /\ UNCHANGED <<buffer, n, total, hasher>>
    /\ UNCHANGED <<call, platform, file, entry, file_size, len_arg, map, mpc, mret, ops>>

\* copy_wide as a function of the reader: the loop run to its return, or for
\* `fuel` reads when it has not returned by then (ret = NoRet).
RECURSIVE CopyLoop(_, _, _, _, _)
CopyLoop(r, buf, tot, h, fuel) ==
    IF fuel = 0 THEN [ret |-> NoRet, hasher |-> h]
    ELSE LET o == NextOutcome(r) IN
         IF o.tag = "Ok" /\ Len(o.bytes) = 0 THEN [ret |-> OkRet(tot), hasher |-> h]
         ELSE IF o.tag = "Ok"
              THEN LET b == Fill(buf, o.bytes)
                   IN  CopyLoop(Advance(r), b, tot + Len(o.bytes),
                                Append(h, Slice(b, Len(o.bytes))), fuel - 1)
         ELSE IF o.err = "Interrupted" THEN CopyLoop(Advance(r), buf, tot, h, fuel - 1)
         ELSE [ret |-> ErrRet(o.err), hasher |-> h]

CopyWide(r, fuel) == CopyLoop(r, <<>>, 0, <<>>, fuel)

\* No call of maybe_mmap_file in this behaviour.
MmapIdle ==
    /\ platform = 64
    /\ file = [size |-> <<0, 0, 0, 0>>, seed |-> 0, cursor |-> <<0, 0, 0, 0>>]
    /\ entry = <<0, 0, 0, 0>> /\ file_size = <<0, 0, 0, 0>> /\ len_arg = <<0, 0, 0, 0>>
    /\ map = [len |-> <<0, 0, 0, 0>>, offset |-> <<0, 0, 0, 0>>, seed |-> 0]
    /\ mpc = "idle" /\ mret = "none" /\ ops = <<>>

InitCopy ==
    /\ call = "copy_wide"
    /\ reader \in Readers
    /\ buffer = <<>>
    /\ n = 0
    /\ total = 0
    /\ hasher = <<>>
    /\ pc = "read"
    /\ ret = NoRet
    /\ MmapIdle

NextCopy == ReadZero \/ ReadChunk \/ Ingest \/ ReadInterrupted \/ ReadError

-----------------------------------------------------------------------------
(* 64-bit unsigned integers, as four 16-bit limbs, most significant first: *)
(* the sizes that matter lie on both sides of 2^32.                        *)

LimbBase == 2^16
Limbs == 1..4

\* k as u64, for 0 <= k < 2^31
U64Of(k) == <<0, 0, k \div LimbBase, k % LimbBase>>

\* a < b on u64
U64Lt(a, b) == \E i \in Limbs : a[i] < b[i] /\ \A j \in 1..(i - 1) : a[j] = b[j]

\* a + k on u64 (wrapping), for a small k
RECURSIVE AddAt(_, _, _)
AddAt(a, i, k) ==
    IF i = 0 \/ k = 0 THEN a
    ELSE LET s == a[i] + k
         IN  AddAt([a EXCEPT ![i] = s % LimbBase], i - 1, s \div LimbBase)
U64Add(a, k) == AddAt(a, 4, k)

\* target_pointer_width of the build
Platforms == {32, 64}

\* usize::MAX as u64
UsizeMax(bits) == [i \in Limbs |-> IF i > 4 - bits \div 16 THEN LimbBase - 1 ELSE 0]

\* Faulty variant of AsUsize: the cast goes through 32 bits on every platform.
AsUsizeVia32(x, bits) == [i \in Limbs |-> IF i > 2 THEN x[i] ELSE 0]

\* x as usize: the low `bits` bits of x
AsUsize(x, bits) == [i \in Limbs |-> IF i > 4 - bits \div 16 THEN x[i] ELSE 0]

-----------------------------------------------------------------------------
(* maybe_mmap_file                                                         *)

\* The file sizes of the model: around the 16 KiB threshold, around 2^32,
\* and the largest u64.
FileSizes ==
    { U64Of(0), U64Of(1), U64Of(16 * 1024 - 1), U64Of(16 * 1024), U64Of(16 * 1024 + 1),
      <<0, 0, LimbBase - 1, LimbBase - 1>>, <<0, 1, 0, 0>>, <<0, 1, 0, 16 * 1024>>,
      <<LimbBase - 1, LimbBase - 1, LimbBase - 1, LimbBase - 1>> }

\* The cursor positions at entry of the model.
EntryPositions == {U64Of(0), U64Of(1), U64Of(16 * 1024)}

\* The contents of a file are a function of its seed: the byte at offset off.
Seeds == {0, 1}
FileByte(seed, off) == (seed + off[1] + off[2] + off[3] + off[4]) % 256

\* The bytes a read of at most k bytes yields with the cursor at pos.
RECURSIVE ReadAt(_, _, _)
ReadAt(f, pos, k) ==
    IF k = 0 \/ ~U64Lt(pos, f.size) THEN <<>>
    ELSE <<FileByte(f.seed, pos)>> \o ReadAt(f, U64Add(pos, 1), k - 1)

\* The byte at index i (0-based, small) of a mapped region.
MapByte(m, i) == FileByte(m.seed, U64Add(m.offset, i))

NoMap == [len |-> U64Of(0), offset |-> U64Of(0), seed |-> 0]

\* One operation on the handle, and whether it succeeded.
HandleOp(op, ok) == [op |-> op, ok |-> ok]

\* Faulty variant of TooSmall: the threshold itself counts as small.
TooSmallInclusive(sz) == U64Lt(sz, U64Of(16 * 1024 + 1))

\* if file_size < 16 * 1024
TooSmall(sz) == U64Lt(sz, U64Of(16 * 1024))

\* Faulty variant of TooBig: the size is never checked against the pointer width.
TooBigUnchecked(sz, bits) == FALSE

\* else if file_size > usize::MAX as u64
TooBig(sz, bits) == U64Lt(UsizeMax(bits), sz)

\* file.seek(std::io::SeekFrom::End(0)) => Ok(l)
SeekEndOk ==
    /\ call = "maybe_mmap_file" /\ mpc = "seek"
    /\ file' = [file EXCEPT !.cursor = file.size]
    /\ file_size' = file.size
    /\ ops' = Append(ops, HandleOp("seek_end", TRUE))
    /\ mpc' = "check"
    /\ UNCHANGED <<platform, entry, len_arg, map, mret>>
    /\ UNCHANGED <<call, reader, buffer, n, total, hasher, pc, ret>>

\* Faulty variant of SeekEndErr: the failed probe falls through to the rewind.
SeekEndErrFallsThrough ==
    /\ call = "maybe_mmap_file" /\ mpc = "seek"
    /\ ops' = Append(ops, HandleOp("seek_end", FALSE))
    /\ mpc' = "rewind"
    /\ UNCHANGED <<platform, file, entry, file_size, len_arg, map, mret>>
    /\ UNCHANGED <<call, reader, buffer, n, total, hasher, pc, ret>>

\* file.seek(std::io::SeekFrom::End(0)) => Err(_) => return Ok(None):
\* a seek that fails leaves the cursor where it was
SeekEndErr ==
    /\ call = "maybe_mmap_file" /\ mpc = "seek"
    /\ ops' = Append(ops, HandleOp("seek_end", FALSE))
    /\ mret' = "None"
    /\ mpc' = "done"
    /\ UNCHANGED <<platform, file, entry, file_size, len_arg, map>>
    /\ UNCHANGED <<call, reader, buffer, n, total, hasher, pc, ret>>

\* Faulty variant of SkipSmall: the small-file branch returns Ok(None) itself.
SkipSmallReturns ==
    /\ call = "maybe_mmap_file" /\ mpc = "check"
    /\ TooSmall(file_size)
    /\ mret' = "None"
    /\ mpc' = "done"
    /\ UNCHANGED <<platform, file, entry, file_size, len_arg, map, ops>>
    /\ UNCHANGED <<call, reader, buffer, n, total, hasher, pc, ret>>

\* if file_size < 16 * 1024 { /* Mapping small files is not worth it. */ }
SkipSmall ==
    /\ call = "maybe_mmap_file" /\ mpc = "check"
    /\ TooSmall(file_size)
    /\ mpc' = "rewind"
    /\ UNCHANGED <<platform, file, entry, file_size, len_arg, map, mret, ops>>
    /\ UNCHANGED <<call, reader, buffer, n, total, hasher, pc, ret>>

\* else if file_size > usize::MAX as u64 { /* Too big to map. */ }
SkipBig ==
    /\ call = "maybe_mmap_file" /\ mpc = "check"
    /\ ~TooSmall(file_size)
    /\ TooBig(file_size, platform)
    /\ mpc' = "rewind"
    /\ UNCHANGED <<platform, file, entry, file_size, len_arg, map, mret, ops>>
    /\ UNCHANGED <<call, reader, buffer, n, total, hasher, pc, ret>>

\* Faulty variant of MapOk: the handle is rewound on the success path too.
MapOkRewinds ==
    /\ call = "maybe_mmap_file" /\ mpc = "check"
    /\ ~TooSmall(file_size)
    /\ ~TooBig(file_size, platform)
    /\ len_arg' = AsUsize(file_size, platform)
    /\ map' = [len |-> AsUsize(file_size, platform), offset |-> U64Of(0), seed |-> file.seed]
    /\ file' = [file EXCEPT !.cursor = U64Of(0)]
    /\ ops' = ops \o <<HandleOp("mmap", TRUE), HandleOp("rewind", TRUE)>>
    /\ mret' = "Some"
    /\ mpc' = "done"
    /\ UNCHANGED <<platform, entry, file_size>>
    /\ UNCHANGED <<call, reader, buffer, n, total, hasher, pc, ret>>

\* else if let Ok(map) = MmapOptions::new().len(file_size as usize).map(&*file)
\*     { return Ok(Some(map)); }
\* The region maps len bytes of the file from offset 0, wherever the cursor is.
MapOk ==
    /\ call = "maybe_mmap_file" /\ mpc = "check"
    /\ ~TooSmall(file_size)
    /\ ~TooBig(file_size, platform)
    /\ len_arg' = AsUsize(file_size, platform)
    /\ map' = [len |-> AsUsize(file_size, platform), offset |-> U64Of(0), seed |-> file.seed]
    /\ ops' = Append(ops, HandleOp("mmap", TRUE))
    /\ mret' = "Some"
    /\ mpc' = "done"
    /\ UNCHANGED <<platform, file, entry, file_size>>
    /\ UNCHANGED <<call, reader, buffer, n, total, hasher, pc, ret>>

\* the mapping call fails: the if let does not match, control falls to the rewind
MapErr ==
    /\ call = "maybe_mmap_file" /\ mpc = "check"
    /\ ~TooSmall(file_size)
    /\ ~TooBig(file_size, platform)
    /\ len_arg' = AsUsize(file_size, platform)
    /\ ops' = Append(ops, HandleOp("mmap", FALSE))
    /\ mpc' = "rewind"
    /\ UNCHANGED <<platform, file, entry, file_size, map, mret>>
    /\ UNCHANGED <<call, reader, buffer, n, total, hasher, pc, ret>>

\* Faulty variant of RewindOk: Ok(None) is returned without the rewind.
RewindSkipped ==
    /\ call = "maybe_mmap_file" /\ mpc = "rewind"
    /\ mret' = "None"
    /\ mpc' = "done"
    /\ UNCHANGED <<platform, file, entry, file_size, len_arg, map, ops>>
    /\ UNCHANGED <<call, reader, buffer, n, total, hasher, pc, ret>>

\* Faulty variant of RewindOk: the cursor is put back where it was at entry.
RewindToEntry ==
    /\ call = "maybe_mmap_file" /\ mpc = "rewind"
    /\ file' = [file EXCEPT !.cursor = entry]
    /\ ops' = Append(ops, HandleOp("rewind", TRUE))
    /\ mret' = "None"
    /\ mpc' = "done"
    /\ UNCHANGED <<platform, entry, file_size, len_arg, map>>
    /\ UNCHANGED <<call, reader, buffer, n, total, hasher, pc, ret>>

\* file.rewind()?; Ok(None)
RewindOk ==
    /\ call = "maybe_mmap_file" /\ mpc = "rewind"
    /\ file' = [file EXCEPT !.cursor = U64Of(0)]
    /\ ops' = Append(ops, HandleOp("rewind", TRUE))
    /\ mret' = "None"
    /\ mpc' = "done"
    /\ UNCHANGED <<platform, entry, file_size, len_arg, map>>
    /\ UNCHANGED <<call, reader, buffer, n, total, hasher, pc, ret>>

\* Faulty variant of RewindErr: the error of the rewind is dropped.
RewindErrHidden ==
    /\ call = "maybe_mmap_file" /\ mpc = "rewind"
    /\ ops' = Append(ops, HandleOp("rewind", FALSE))
    /\ mret' = "None"
    /\ mpc' = "done"
    /\ UNCHANGED <<platform, file, entry, file_size, len_arg, map>>
    /\ UNCHANGED <<call, reader, buffer, n, total, hasher, pc, ret>>

\* file.rewind()? with a rewind that fails: the error is returned
RewindErr ==
    /\ call = "maybe_mmap_file" /\ mpc = "rewind"
    /\ ops' = Append(ops, HandleOp("rewind", FALSE))
    /\ mret' = "Err"
    /\ mpc' = "done"
    /\ UNCHANGED <<platform, file, entry, file_size, len_arg, map>>
    /\ UNCHANGED <<call, reader, buffer, n, total, hasher, pc, ret>>

\* No call of copy_wide in this behaviour.
CopyIdle ==
    /\ reader = [script |-> <<>>, pos |-> 1, tail |-> OkRead(<<>>)]
    /\ buffer = <<>> /\ n = 0 /\ total = 0 /\ hasher = <<>>
    /\ pc = "idle" /\ ret = NoRet

InitMmap ==
    /\ call = "maybe_mmap_file"
    /\ platform \in Platforms
    /\ \E sz \in FileSizes, sd \in Seeds, p \in EntryPositions :
        /\ file = [size |-> sz, seed |-> sd, cursor |-> p]
        /\ entry = p
    /\ file_size = U64Of(0)
    /\ len_arg = U64Of(0)
    /\ map = NoMap
    /\ mpc = "seek"
    /\ mret = "none"
    /\ ops = <<>>
    /\ CopyIdle

NextMmap ==
    SeekEndOk \/ SeekEndErr \/ SkipSmall \/ SkipBig \/ MapOk \/ MapErr \/ RewindOk \/ RewindErr

-----------------------------------------------------------------------------
Init == InitCopy \/ InitMmap

Next == NextCopy \/ NextMmap

Spec == Init /\ [][Next]_vars

\* copy_wide is sequential code on the caller's thread: a read that is issued
\* returns, and the loop takes its next step.
FairSpec == Spec /\ WF_vars(NextCopy)

-----------------------------------------------------------------------------
(* Properties of copy_wide                                                 *)

\* The i-th outcome reader r yields (1-based), whatever its position.
OutcomeAt(r, i) == IF i <= Len(r.script) THEN r.script[i] ELSE r.tail

IsChunk(o) == o.tag = "Ok" /\ Len(o.bytes) > 0
IsZero(o) == o.tag = "Ok" /\ Len(o.bytes) = 0
IsInterrupted(o) == o.tag = "Err" /\ o.err = "Interrupted"
IsFatal(o) == o.tag = "Err" /\ o.err # "Interrupted"

IsPrefix(s, t) == Len(s) <= Len(t) /\ \A i \in 1..Len(s) : s[i] = t[i]

RECURSIVE SumLens(_)
SumLens(chunks) == IF chunks = <<>> THEN 0 ELSE Len(Head(chunks)) + SumLens(Tail(chunks))

\* The chunks of the successful nonempty reads among the first k outcomes of r.
RECURSIVE ChunksOf(_, _)
ChunksOf(r, k) ==
    IF k = 0 THEN <<>>
    ELSE IF IsChunk(OutcomeAt(r, k)) THEN Append(ChunksOf(r, k - 1), OutcomeAt(r, k).bytes)
    ELSE ChunksOf(r, k - 1)

\* The number of outcomes of the script read so far.
Consumed == reader.pos - 1

\* r yields k nonempty chunks and then an empty read.
ChunksThenZero(r, k) ==
    /\ \A i \in 1..k : IsChunk(OutcomeAt(r, i))
    /\ IsZero(OutcomeAt(r, k + 1))

\* C1: for a source that yields a finite sequence of nonempty chunks and then one
\* empty read, copy_wide returns Ok(total) with total the sum of the chunk lengths,
\* and the accumulator has received exactly those chunks, each once, in source
\* order; until it returns, what the accumulator has received is a prefix of them.
C1_ChunksThenZeroCopied ==
    call = "copy_wide" =>
        \A k \in 0..Len(reader.script) :
            ChunksThenZero(reader, k) =>
                LET chunks == [i \in 1..k |-> reader.script[i].bytes] IN
                /\ IsPrefix(hasher, chunks)
                /\ total = SumLens(hasher)
                /\ ret.tag # "Err"
                /\ pc = "done" => ret = OkRet(SumLens(chunks)) /\ hasher = chunks

\* A run over a longer chunk followed by a shorter, different one has returned.
C1_Witness ==
    /\ call = "copy_wide" /\ pc = "done" /\ ret.tag = "Ok"
    /\ \E k \in 2..Len(reader.script) : ChunksThenZero(reader, k)
    /\ Len(hasher) >= 2
    /\ Len(hasher[1]) > Len(hasher[2])
    /\ hasher[2] # SubSeq(hasher[1], 1, Len(hasher[2]))

\* The reader without its Interrupted outcomes.
Uninterrupted(r) ==
    [script |-> SelectSeq(r.script, LAMBDA o : ~IsInterrupted(o)), pos |-> 1, tail |-> r.tail]

\* C2: interruption transparency: a run over a source with finitely many
\* Interrupted failures inserted returns what copy_wide returns on the same source
\* without them, with the same slices ingested; until it returns, what it has
\* ingested is a prefix of what the uninterrupted run ingests.
C2_InterruptionTransparent ==
    (call = "copy_wide" /\ ~IsInterrupted(reader.tail)) =>
        LET plain == CopyWide(Uninterrupted(reader), MaxIngest + 1) IN
        /\ IsPrefix(hasher, plain.hasher)
        /\ pc = "done" => ret = plain.ret /\ hasher = plain.hasher

\* A run interrupted before its first successful read and again between two
\* successful reads has returned.
C2_Witness ==
    /\ call = "copy_wide" /\ pc = "done"
    /\ Len(reader.script) >= 3
    /\ IsInterrupted(reader.script[1])
    /\ IsChunk(reader.script[2])
    /\ IsInterrupted(reader.script[3])
    /\ Len(hasher) >= 1

\* C7: a read that fails with an error other than Interrupted makes copy_wide
\* return that error at once: it is the last read issued, no total is returned,
\* and the accumulator holds exactly the chunks of the successful reads before it.
C7_FatalErrorReturned ==
    call = "copy_wide" =>
        /\ (Consumed >= 1 /\ IsFatal(reader.script[Consumed])) =>
              /\ pc = "done"
              /\ ret = ErrRet(reader.script[Consumed].err)
              /\ hasher = ChunksOf(reader, Consumed - 1)
              /\ \A i \in 1..(Consumed - 1) :
                    IsChunk(reader.script[i]) \/ IsInterrupted(reader.script[i])
        /\ ret.tag = "Err" =>
              /\ pc = "done" /\ Consumed >= 1
              /\ IsFatal(reader.script[Consumed])

\* A run that ingested two chunks and then met a fatal error, with more to read.
C7_Witness ==
    /\ call = "copy_wide" /\ pc = "done" /\ ret.tag = "Err"
    /\ Len(hasher) >= 1
    /\ Consumed < Len(reader.script)
    /\ IsChunk(reader.script[Consumed + 1])

\* Every read of r fails with Interrupted.
AlwaysInterrupted(r) ==
    /\ IsInterrupted(r.tail)
    /\ \A i \in 1..Len(r.script) : IsInterrupted(r.script[i])

\* C8: on a source whose every read fails with Interrupted, copy_wide ingests
\* nothing and does not return: it is at the read, and the retry is enabled,
\* however many retries have been made.
C8_AlwaysInterruptedNeverReturns ==
    (call = "copy_wide" /\ AlwaysInterrupted(reader)) =>
        /\ pc = "read"
        /\ ret = NoRet
        /\ hasher = <<>>
        /\ total = 0
        /\ ENABLED ReadInterrupted

\* The script of an always-interrupted source is used up: the retries go on.
C8_Witness ==
    /\ call = "copy_wide" /\ AlwaysInterrupted(reader)
    /\ Len(reader.script) >= 2
    /\ reader.pos > Len(reader.script)
    /\ pc = "read"

-----------------------------------------------------------------------------
(* Properties of maybe_mmap_file                                           *)

Zero == <<0, 0, 0, 0>>

\* sz < 16 KiB, limb by limb
Below16K(sz) == sz[1] = 0 /\ sz[2] = 0 /\ sz[3] = 0 /\ sz[4] < 16 * 1024

\* sz <= usize::MAX of a platform of that pointer width: the limbs above it are 0
FitsUsize(sz, bits) == \A i \in 1..(4 - bits \div 16) : sz[i] = 0

\* The mapping call was made.
Attempted == \E i \in 1..Len(ops) : ops[i].op = "mmap"

\* The first k bytes of file f (fewer when the file is shorter).
FirstBytes(f, k) ==
    LET m == IF f.size[1] = 0 /\ f.size[2] = 0 /\ f.size[3] = 0 /\ f.size[4] < k
             THEN f.size[4] ELSE k
    IN  [i \in 1..m |-> FileByte(f.seed, <<0, 0, 0, i - 1>>)]

\* C3: entered with the cursor at 0, a call that returns Ok(None), for whatever
\* reason it declined, leaves the cursor at 0: the next read yields the file's
\* first bytes.
C3_DeclineLeavesCursorAtZero ==
    (call = "maybe_mmap_file" /\ mpc = "done" /\ mret = "None" /\ entry = Zero) =>
        /\ file.cursor = Zero
        /\ ReadAt(file, file.cursor, ProbeLen) = FirstBytes(file, ProbeLen)

\* A call declined after a failed mapping of a file of at least 16 KiB: the probe
\* moved the cursor and the rewind restored it.
C3_Witness ==
    /\ call = "maybe_mmap_file" /\ mpc = "done" /\ mret = "None" /\ entry = Zero
    /\ ~Below16K(file.size)
    /\ Len(ops) = 3 /\ ops[2].op = "mmap" /\ ops[3].op = "rewind"

\* C4: when the size probe fails, the call returns Ok(None), makes no mapping call
\* and no other operation on the handle (no rewind): the cursor is where it was.
C4_FailedProbeLeavesHandle ==
    (call = "maybe_mmap_file" /\ Len(ops) >= 1 /\ ~ops[1].ok) =>
        /\ mpc = "done"
        /\ mret = "None"
        /\ Len(ops) = 1 /\ ops[1].op = "seek_end"
        /\ file.cursor = entry
        /\ map = NoMap

\* The probe of a large file failed with the cursor not at 0.
C4_Witness ==
    /\ call = "maybe_mmap_file" /\ mpc = "done"
    /\ Len(ops) = 1 /\ ~ops[1].ok
    /\ entry # Zero /\ ~Below16K(file.size)

\* C5: the call returns an error exactly when the rewind after a decline fails;
\* a failed probe, a size out of range or a failed mapping call alone give Ok(None).
C5_ErrIffRewindFails ==
    call = "maybe_mmap_file" =>
        /\ mret = "Err" <=>
              (Len(ops) >= 1 /\ ops[Len(ops)].op = "rewind" /\ ~ops[Len(ops)].ok)
        /\ mpc = "done" =>
              /\ mret \in {"None", "Some", "Err"}
              /\ ops[Len(ops)].ok => mret \in {"None", "Some"}
              /\ ops[Len(ops)].op # "rewind" =>
                    mret = (IF ops[Len(ops)].op = "mmap" THEN "Some" ELSE "None")

\* The mapping call failed and then the rewind failed: an error is returned.
C5_Witness ==
    /\ call = "maybe_mmap_file" /\ mpc = "done" /\ mret = "Err"
    /\ Len(ops) = 3 /\ ops[2].op = "mmap" /\ ~ops[2].ok

\* C6: a file of less than 16 KiB (16 KiB - 1 the largest) is never mapped and no
\* mapping call is made for it; for a file of exactly 16 KiB whose probe succeeds
\* the mapping call is made, and when it succeeds Some(mapping) is returned.
C6_Threshold ==
    call = "maybe_mmap_file" =>
        /\ Below16K(file.size) => ~Attempted /\ mret # "Some"
        /\ (file.size = <<0, 0, 0, 16 * 1024>> /\ Len(ops) >= 1 /\ ops[1].ok
                /\ mpc \in {"rewind", "done"}) =>
              /\ Len(ops) >= 2 /\ ops[2].op = "mmap"
              /\ ops[2].ok => mret = "Some" /\ mpc = "done" /\ Len(ops) = 2

\* A file of exactly 16 KiB has been mapped.
C6_Witness ==
    /\ call = "maybe_mmap_file" /\ mpc = "done" /\ mret = "Some"
    /\ file.size = <<0, 0, 0, 16 * 1024>>

\* C9: a returned mapping has length file_size, the size the probe returned, and
\* its bytes are the file's from offset 0.
C9_MappingCoversFile ==
    (call = "maybe_mmap_file" /\ mret = "Some") =>
        /\ file_size = file.size
        /\ map.len = file_size
        /\ map.offset = Zero
        /\ \A i \in 0..(ProbeLen - 1) : MapByte(map, i) = FileByte(file.seed, <<0, 0, 0, i>>)

\* A file of 2^32 bytes or more has been mapped on a 64-bit platform.
C9_Witness ==
    /\ call = "maybe_mmap_file" /\ mret = "Some"
    /\ platform = 64
    /\ file.size[2] >= 1

\* C10: the mapping call is made only for 16 KiB <= file_size <= usize::MAX, and
\* the length it is given equals file_size; a file larger than usize::MAX is never
\* mapped.
C10_LenNeverTruncated ==
    call = "maybe_mmap_file" =>
        /\ Attempted =>
              /\ ~Below16K(file_size)
              /\ FitsUsize(file_size, platform)
              /\ len_arg = file_size
        /\ ~FitsUsize(file.size, platform) => ~Attempted /\ mret # "Some"

\* On a 32-bit platform a file of 2^32 bytes or more was declined and rewound.
C10_Witness ==
    /\ call = "maybe_mmap_file" /\ mpc = "done" /\ mret = "None"
    /\ platform = 32 /\ ~FitsUsize(file_size, platform)
    /\ Len(ops) = 2 /\ ops[2].op = "rewind"

\* The number of rewinds among the operations on the handle.
Rewinds == Cardinality({i \in 1..Len(ops) : ops[i].op = "rewind"})

\* C11, as stated: every execution that produces no mapping passes through exactly
\* one rewind, its last operation on the handle.  An execution whose size probe
\* fails returns Ok(None) with no rewind at all.
C11_EveryDeclineRewinds ==
    (call = "maybe_mmap_file" /\ mpc = "done" /\ mret # "Some") =>
        /\ Rewinds = 1
        /\ ops[Len(ops)].op = "rewind"

\* C11, amended: every execution that produces no mapping after a successful size
\* probe (too small, too large, mapping failure) passes through exactly one rewind,
\* its last operation on the handle; an execution that produces a mapping, or whose
\* probe fails, makes none.
C11_DeclineAfterProbeRewinds ==
    (call = "maybe_mmap_file" /\ mpc = "done") =>
        IF mret # "Some" /\ ops[1].ok
        THEN /\ Rewinds = 1
             /\ ops[Len(ops)].op = "rewind"
             /\ \A i \in 1..(Len(ops) - 1) : ops[i].op # "rewind"
        ELSE Rewinds = 0

\* A file below 16 KiB was declined: the probe, then the rewind.
C11_Witness ==
    /\ call = "maybe_mmap_file" /\ mpc = "done" /\ mret = "None"
    /\ Below16K(file_size) /\ file_size # Zero
    /\ Len(ops) = 2 /\ ops[1].ok /\ ops[2].op = "rewind" /\ ops[2].ok

-----------------------------------------------------------------------------
(* Properties of copy_wide, step by step                                   *)

\* copy_wide is about to issue a read whose outcome satisfies P.
AtRead(P(_)) == call = "copy_wide" /\ pc = "read" /\ P(NextOutcome(reader))

\* C12: a zero-length read is terminal: the step that reads it returns Ok(total)
\* with nothing more ingested, it is neither an error nor a retry, Ok is returned
\* only there, and no step follows the return, whatever the source would yield.
C12_ZeroReadTerminal ==
    /\ [][AtRead(IsZero) =>
            /\ pc' = "done"
            /\ ret' = OkRet(total)
            /\ hasher' = hasher /\ total' = total]_vars
    /\ [][pc # "done"]_vars
    /\ [](ret.tag = "Ok" => pc = "done" /\ ret.total = total)

\* A run returned Ok at an empty read that a nonempty chunk would have followed.
C12_Witness ==
    /\ call = "copy_wide" /\ pc = "done" /\ ret.tag = "Ok"
    /\ Len(hasher) >= 1
    /\ Consumed >= 1 /\ Consumed < Len(reader.script)
    /\ IsZero(reader.script[Consumed])
    /\ IsChunk(reader.script[Consumed + 1])

\* C13: an Interrupted read is a pure retry: the step that meets it leaves the
\* total, the accumulator and the buffer as they were, returns nothing, and leaves
\* copy_wide at the read of the same source, one outcome further; copy_wide never
\* returns an error of kind Interrupted.
C13_InterruptedIsPureRetry ==
    /\ [][AtRead(IsInterrupted) =>
            /\ pc' = "read"
            /\ ret' = NoRet
            /\ total' = total /\ hasher' = hasher
            /\ buffer' = buffer /\ n' = n
            /\ reader'.script = reader.script /\ reader'.tail = reader.tail
            /\ reader'.pos = (IF reader.pos <= Len(reader.script)
                              THEN reader.pos + 1 ELSE reader.pos)]_vars
    /\ [](ret.err # "Interrupted")

\* A read was interrupted right after a chunk was ingested; the retry is next.
C13_Witness ==
    /\ call = "copy_wide" /\ pc = "read" /\ ret = NoRet
    /\ Consumed >= 2
    /\ IsChunk(reader.script[Consumed - 1])
    /\ IsInterrupted(reader.script[Consumed])
    /\ hasher = <<reader.script[Consumed - 1].bytes>>

\* The script tells which reads were made: the reader is still in its script, or
\* its tail yields no chunk.
Tracked == reader.pos <= Len(reader.script) \/ ~IsChunk(reader.tail)

\* The chunks the successful nonempty reads have returned so far (when Tracked).
ReadSoFar == ChunksOf(reader, Consumed)

\* C14, as stated: at every point the total equals the bytes ingested, which equal
\* the sum of the lengths the successful nonempty reads have returned.  Between a
\* read's return and the ingestion of its chunk the last sum is ahead.
C14_TotalIsReadSumEverywhere ==
    (call = "copy_wide" /\ Tracked) =>
        /\ total = SumLens(hasher)
        /\ SumLens(hasher) = SumLens(ReadSoFar)

\* C14, amended: whenever copy_wide issues a read or has returned (with
\* interruptions, and when it ends in an error), the total equals the bytes
\* ingested, which equal the sum of the lengths the successful nonempty reads have
\* returned; while the chunk of the latest read awaits its ingestion the total is
\* behind that sum by exactly the chunk's length, and still equals what was
\* ingested before.
C14_TotalIsReadSumAtReads ==
    call = "copy_wide" =>
        /\ total = SumLens(hasher)
        /\ Tracked =>
              IF pc = "ingest"
              THEN /\ SumLens(ReadSoFar) = total + n
                   /\ n = Len(ReadSoFar[Len(ReadSoFar)])
              ELSE SumLens(ReadSoFar) = total
        /\ pc = "done" /\ ret.tag = "Ok" => ret.total = SumLens(hasher)

\* After an interruption and an ingested chunk, a chunk of two bytes is in flight.
C14_Witness ==
    /\ call = "copy_wide" /\ pc = "ingest" /\ Tracked
    /\ n = 2 /\ total >= 1
    /\ \E i \in 1..Consumed : IsInterrupted(reader.script[i])

-----------------------------------------------------------------------------
(* Properties of maybe_mmap_file: the cursor                               *)

\* C15: when Some(mapping) is returned no rewind was made: the probe is the only
\* operation that moved the cursor, the mapping call follows it, and the cursor is
\* left at the end of the file (position file_size), not back at 0.
C15_SuccessLeavesCursorAtEnd ==
    (call = "maybe_mmap_file" /\ mret = "Some") =>
        /\ mpc = "done"
        /\ Len(ops) = 2
        /\ ops[1].op = "seek_end" /\ ops[1].ok
        /\ ops[2].op = "mmap" /\ ops[2].ok
        /\ file.cursor = file_size
        /\ file.cursor = file.size
        /\ file.cursor # Zero

\* Entered at 0, a file of 16 KiB + 1 bytes was mapped: the cursor is at its end.
C15_Witness ==
    /\ call = "maybe_mmap_file" /\ mpc = "done" /\ mret = "Some"
    /\ entry = Zero
    /\ file.cursor = <<0, 0, 0, 16 * 1024 + 1>>

-----------------------------------------------------------------------------
(* Properties of copy_wide: one chunk in flight                            *)

\* C16: at most one chunk is in flight: a successful nonempty read leaves
\* copy_wide at the ingestion of its chunk, the ingestion hands the accumulator
\* exactly the first n bytes of the buffer, 1 <= n <= 65536, n the count that
\* read returned, and only then is the next read issued; so the chunks read and the
\* slices ingested differ by at most the one chunk in flight.
C16_OneChunkInFlight ==
    /\ [][AtRead(IsChunk) =>
            /\ pc' = "ingest"
            /\ hasher' = hasher
            /\ n' = Len(NextOutcome(reader).bytes)
            /\ SubSeq(buffer', 1, n') = NextOutcome(reader).bytes]_vars
    /\ [][(call = "copy_wide" /\ pc = "ingest") =>
            /\ pc' = "read"
            /\ reader' = reader
            /\ hasher' = Append(hasher, SubSeq(buffer, 1, n))]_vars
    /\ []((call = "copy_wide" /\ pc = "ingest") =>
            /\ 1 <= n /\ n <= 65536 /\ n <= Len(buffer)
            /\ Tracked => ReadSoFar = Append(hasher, SubSeq(buffer, 1, n)))
    /\ []((call = "copy_wide" /\ pc # "ingest" /\ Tracked) => ReadSoFar = hasher)

\* A chunk of one byte is in flight in a buffer that still holds the second byte
\* of an earlier, ingested chunk.
C16_Witness ==
    /\ call = "copy_wide" /\ pc = "ingest"
    /\ n = 1 /\ Len(buffer) = 2 /\ buffer[1] # buffer[2]
    /\ Len(hasher) >= 1

-----------------------------------------------------------------------------
(* Termination of copy_wide                                                *)

\* After finitely many chunks and Interrupted failures r yields an empty read or an
\* error other than Interrupted.
Ends(r) ==
    \E k \in 1..(Len(r.script) + 1) : IsZero(OutcomeAt(r, k)) \/ IsFatal(OutcomeAt(r, k))

\* C17: on a source that, after finitely many nonempty reads and Interrupted
\* failures, yields an empty read or an error other than Interrupted, copy_wide
\* eventually returns; on a source that only ever yields chunks and Interrupted
\* failures it never returns.
C17_Terminates ==
    /\ (call = "copy_wide" /\ Ends(reader)) ~> (pc = "done")
    /\ []((call = "copy_wide" /\ ~Ends(reader)) => pc # "done")

\* A run with an interruption and two ingested chunks has returned at the empty
\* read that follows the reader's script.
C17_Witness ==
    /\ call = "copy_wide" /\ pc = "done" /\ ret.tag = "Ok"
    /\ Ends(reader)
    /\ Len(hasher) = 2
    /\ Consumed = Len(reader.script)
    /\ \A i \in 1..Consumed : ~IsZero(reader.script[i])
    /\ \E i \in 1..Consumed : IsInterrupted(reader.script[i])

-----------------------------------------------------------------------------
(* maybe_mmap_file entered with the cursor away from 0                     *)

\* C18: the cursor at entry is not remembered: entered at a position p other than
\* 0, a call that declines after a successful probe leaves the cursor at 0, not at
\* p; and a returned mapping covers the file from offset 0 for file_size bytes,
\* whatever p was.
C18_EntryCursorForgotten ==
    (call = "maybe_mmap_file" /\ entry # Zero /\ mpc = "done") =>
        /\ (mret = "None" /\ ops[1].ok) =>
              /\ file.cursor = Zero
              /\ file.cursor # entry
        /\ mret = "Some" =>
              /\ map.offset = Zero
              /\ map.len = file.size
              /\ MapByte(map, 0) = FileByte(file.seed, Zero)

\* Entered at 16 KiB, the call declined a file of one byte: the cursor is at 0.
C18_Witness ==
    /\ call = "maybe_mmap_file" /\ mpc = "done" /\ mret = "None"
    /\ entry = <<0, 0, 0, 16 * 1024>>
    /\ file.size = <<0, 0, 0, 1>>
    /\ Len(ops) = 2 /\ ops[2].ok
    /\ file.cursor = Zero

=============================================================================
